---- MODULE Spec2Model ----
(***************************************************************************)
(* The puzzle-progression state machine of the ChessPuzzle component       *)
(* (src/src/App.tsx): the React state cells, the handlers reset, undo,     *)
(* playExpectedMove, showHint, onDrop, the PuzzleLoader callbacks onLoad,   *)
(* onLoadSolution and loadDemo, the 450 ms setTimeout callback, and the    *)
(* pure helpers toSanSequence, clean and parseMoves.                       *)
(*                                                                         *)
(* Text that the code inspects character by character (move tokens, SAN    *)
(* strings, the solution textarea) is a sequence of one-character strings. *)
(* A FEN is only ever handed to chess.js and compared, so it is a string.  *)
(*                                                                         *)
(* chess.js is a dependency, not code of this repository.  Its move        *)
(* generator is represented by LegalMoves: for each position the model     *)
(* can visit, the legal chess moves whose from and to squares both lie in  *)
(* Squares (the squares a drag may start or end on), with the SAN and the  *)
(* resulting FEN chess.js reports for them.                                *)
(***************************************************************************)
EXTENDS Integers, Sequences, FiniteSets, TLC

VARIABLES
    puzzle,     \* useState<PuzzleConfig>: [fen, solution, coachNotes]
    fen,        \* useState<string>: the position shown on the board
    ply,        \* useState<number>
    wrong,      \* useState<boolean>
    arrows,     \* useState<[Square, Square][]>
    solved,     \* useState<boolean>
    coach,      \* useState<CoachItem[]>
    timers,     \* number of setTimeout callbacks scheduled and not yet run
    norm,       \* a call of toSanSequence: its arguments and its result
    crashed,    \* the render threw (useMemo of toSanSequence): tree unmounted
    lastOp,     \* the handler that ran last
    ret,        \* what the last handler returned, if it was onDrop
    run         \* accepted onDrop calls since the session was last fresh

vars == <<puzzle, fen, ply, wrong, arrows, solved, coach, timers, norm,
          crashed, lastOp, ret, run>>

session == <<puzzle, fen, ply, wrong, arrows, solved, coach>>

\* Pending setTimeout callbacks the model keeps track of at once.
MaxTimers == 2

\* Longest move list handed to a call of toSanSequence on its own.
MaxLine == 2

-----------------------------------------------------------------------------
(* Squares and texts *)

e7 == <<"e", "7">>
e8 == <<"e", "8">>
f6 == <<"f", "6">>
f7 == <<"f", "7">>
f8 == <<"f", "8">>
g7 == <<"g", "7">>
g8 == <<"g", "8">>
h8 == <<"h", "8">>

Squares == {e7, e8, f6, f7, f8, g7, g8, h8}

Files == {"a", "b", "c", "d", "e", "f", "g", "h"}
Ranks == {"1", "2", "3", "4", "5", "6", "7", "8"}
Digits == {"0", "1", "2", "3", "4", "5", "6", "7", "8", "9"}
PromotionLetters == {"q", "r", "b", "n"}

\* The positions, as the FEN strings chess.js prints for them.
FenDemo    == "7k/5Q2/7K/8/8/8/8/8 w - - 0 1"
FenDemoQg7 == "7k/6Q1/7K/8/8/8/8/8 b - - 1 1"
FenDemoQf6 == "7k/8/5Q1K/8/8/8/8/8 b - - 1 1"
FenDemoQf8 == "5Q1k/8/7K/8/8/8/8/8 b - - 1 1"
FenLadder  == "6k1/8/5Q1K/8/8/8/8/8 w - - 2 2"
FenLadderQg7 == "6k1/6Q1/7K/8/8/8/8/8 b - - 3 2"
FenLadderQf8 == "5Qk1/8/7K/8/8/8/8/8 b - - 3 2"
FenPawn    == "8/4P3/8/8/8/k7/8/K7 w - - 0 1"
FenPawnQ   == "4Q3/8/8/8/8/k7/8/K7 b - - 0 1"
FenPawnR   == "4R3/8/8/8/8/k7/8/K7 b - - 0 1"
FenPawnB   == "4B3/8/8/8/8/k7/8/K7 b - - 0 1"
FenPawnN   == "4N3/8/8/8/8/k7/8/K7 b - - 0 1"
FenBroken  == "7k/5Q2/7K w - - 0 1"

Positions == {FenDemo, FenDemoQg7, FenDemoQf6, FenDemoQf8, FenLadder,
              FenLadderQg7, FenLadderQf8, FenPawn, FenPawnQ, FenPawnR,
              FenPawnB, FenPawnN}

Mv(from, to, promotion, san, after) ==
    [from |-> from, to |-> to, promotion |-> promotion, san |-> san,
     after |-> after]

\* chess.js move generation, restricted to Squares.
LegalMoves(pos) ==
    CASE pos = FenDemo ->
           { Mv(f7, g7, "", <<"Q","g","7","#">>, FenDemoQg7),
             Mv(f7, f6, "", <<"Q","f","6","+">>, FenDemoQf6),
             Mv(f7, f8, "", <<"Q","f","8","#">>, FenDemoQf8),
             Mv(f7, e7, "", <<"Q","e","7">>, "7k/4Q3/7K/8/8/8/8/8 b - - 1 1"),
             Mv(f7, e8, "", <<"Q","e","8","#">>, "4Q2k/8/7K/8/8/8/8/8 b - - 1 1"),
             Mv(f7, g8, "", <<"Q","g","8","+">>, "6Qk/8/7K/8/8/8/8/8 b - - 1 1") }
      [] pos = FenDemoQf6 ->
           { Mv(h8, g8, "", <<"K","g","8">>, FenLadder) }
      [] pos = FenLadder ->
           { Mv(f6, g7, "", <<"Q","g","7","#">>, FenLadderQg7),
             Mv(f6, f8, "", <<"Q","f","8","+">>, FenLadderQf8),
             Mv(f6, f7, "", <<"Q","f","7","+">>, "6k1/5Q2/7K/8/8/8/8/8 b - - 3 2"),
             Mv(f6, e7, "", <<"Q","e","7">>, "6k1/4Q3/7K/8/8/8/8/8 b - - 3 2"),
             Mv(f6, h8, "", <<"Q","h","8","+">>, "6kQ/8/7K/8/8/8/8/8 b - - 3 2") }
      [] pos = FenLadderQf8 ->
           { Mv(g8, f8, "", <<"K","x","f","8">>, "5k2/8/7K/8/8/8/8/8 w - - 0 3") }
      [] pos = FenPawn ->
           { Mv(e7, e8, "q", <<"e","8","=","Q">>, FenPawnQ),
             Mv(e7, e8, "r", <<"e","8","=","R">>, FenPawnR),
             Mv(e7, e8, "b", <<"e","8","=","B">>, FenPawnB),
             Mv(e7, e8, "n", <<"e","8","=","N">>, FenPawnN) }
      [] OTHER -> {}

\* new Chess(fen) accepts the string (does not throw).
ValidFen(f) == f \in Positions

-----------------------------------------------------------------------------
(* chess.js move(), as the component calls it *)

RECURSIVE DropTrailing(_, _)
DropTrailing(s, chars) ==
    IF s # <<>> /\ s[Len(s)] \in chars
    THEN DropTrailing(SubSeq(s, 1, Len(s) - 1), chars)
    ELSE s

RECURSIVE DropFirst(_, _)
DropFirst(s, c) ==
    IF s = <<>> THEN <<>>
    ELSE IF Head(s) = c THEN Tail(s)
    ELSE <<Head(s)>> \o DropFirst(Tail(s), c)

\* chess.js strippedSan: replace(/=/, "").replace(/[+#]?[?!]*$/, "")
StrippedSan(s) ==
    LET noEq == DropFirst(s, "=")
        noAnn == DropTrailing(noEq, {"?", "!"})
    IN  IF noAnn # <<>> /\ noAnn[Len(noAnn)] \in {"+", "#"}
        THEN SubSeq(noAnn, 1, Len(noAnn) - 1)
        ELSE noAnn

\* ch.move(token, { sloppy: true }): the legal moves the token denotes.
MoveSan(pos, token) ==
    { m \in LegalMoves(pos) : StrippedSan(m.san) = StrippedSan(token) }

\* ch.move({ from, to, promotion }): a promotion letter only has to agree
\* with moves that promote.
MoveObj(pos, from, to, promotion) ==
    { m \in LegalMoves(pos) :
        /\ m.from = from
        /\ m.to = to
        /\ (m.promotion = "" \/ m.promotion = promotion) }

\* /^[a-h][1-8][a-h][1-8][qrbn]?$/.test(token)
IsUci(token) ==
    /\ Len(token) \in {4, 5}
    /\ token[1] \in Files /\ token[2] \in Ranks
    /\ token[3] \in Files /\ token[4] \in Ranks
    /\ (Len(token) = 5 => token[5] \in PromotionLetters)

-----------------------------------------------------------------------------
(* toSanSequence, clean, parseMoves *)

\* The promotion letter of a coordinate token: token[4], undefined when absent.
UciPromotion(token) == IF Len(token) = 5 THEN token[5] ELSE ""

\* One token of toSanSequence against the scratch position: SAN first, then
\* coordinate notation; the empty set when the code throws.
ResolveToken(pos, token) ==
    LET bySan == MoveSan(pos, token)
        byUci == IF IsUci(token)
                 THEN MoveObj(pos, SubSeq(token, 1, 2), SubSeq(token, 3, 4),
                              UciPromotion(token))
                 ELSE {}
    IN  IF bySan # {} THEN bySan ELSE byUci

\* toSanSequence, had it read every token in the initial position.
RECURSIVE toSanSequenceNoAdvance(_, _)
toSanSequenceNoAdvance(initialFen, seq) ==
    IF seq = <<>> THEN [threw |-> FALSE, san |-> <<>>]
    ELSE LET found == ResolveToken(initialFen, Head(seq))
         IN  IF found = {} THEN [threw |-> TRUE, san |-> <<>>]
             ELSE LET mv == CHOOSE m \in found : TRUE
                      rest == toSanSequenceNoAdvance(initialFen, Tail(seq))
                  IN  IF rest.threw THEN rest
                      ELSE [threw |-> FALSE, san |-> <<mv.san>> \o rest.san]

\* toSanSequence(initialFen, seq): [threw, san].  The scratch clone advances
\* by every resolved move, so each token is read in the position its
\* predecessors lead to.
RECURSIVE toSanSequence(_, _)
toSanSequence(initialFen, seq) ==
    IF seq = <<>> THEN [threw |-> FALSE, san |-> <<>>]
    ELSE LET found == ResolveToken(initialFen, Head(seq))
         IN  IF found = {} THEN [threw |-> TRUE, san |-> <<>>]
             ELSE LET mv == CHOOSE m \in found : TRUE
                      rest == toSanSequence(mv.after, Tail(seq))
                  IN  IF rest.threw THEN rest
                      ELSE [threw |-> FALSE, san |-> <<mv.san>> \o rest.san]

\* clean = (s) => s.replace(/[+#!?]+/g, "")
Decorations == {"+", "#", "!", "?"}

IsPlain(c) == c \notin Decorations

\* clean, had it compared the strings as they are.
cleanNothing(s) == s

clean(s) == SelectSeq(s, IsPlain)

\* Length of the run of digits s starts with.
RECURSIVE DigitRun(_)
DigitRun(s) ==
    IF s # <<>> /\ Head(s) \in Digits THEN 1 + DigitRun(Tail(s)) ELSE 0

\* s.replace(/\d+\.(\.\.)?/g, " ")
RECURSIVE ReplaceMoveNumbers(_)
ReplaceMoveNumbers(s) ==
    IF s = <<>> THEN <<>>
    ELSE LET d == DigitRun(s)
         IN  IF d > 0 /\ Len(s) > d /\ s[d + 1] = "."
             THEN LET k == IF Len(s) >= d + 3 /\ s[d + 2] = "." /\ s[d + 3] = "."
                           THEN d + 3 ELSE d + 1
                  IN  <<" ">> \o ReplaceMoveNumbers(SubSeq(s, k + 1, Len(s)))
             ELSE <<Head(s)>> \o ReplaceMoveNumbers(Tail(s))

Whitespace == {" ", "\n"}

\* s.replace(/\s+/g, " ")
RECURSIVE CollapseSpaces(_)
CollapseSpaces(s) ==
    IF s = <<>> THEN <<>>
    ELSE IF Head(s) \in Whitespace
         THEN IF Len(s) > 1 /\ s[2] \in Whitespace
              THEN CollapseSpaces(Tail(s))
              ELSE <<" ">> \o CollapseSpaces(Tail(s))
         ELSE <<Head(s)>> \o CollapseSpaces(Tail(s))

RECURSIVE TrimLeft(_)
TrimLeft(s) ==
    IF s # <<>> /\ Head(s) \in Whitespace THEN TrimLeft(Tail(s)) ELSE s

\* s.trim()
Trim(s) == DropTrailing(TrimLeft(s), Whitespace)

\* s.split(/[ ,]/): the pieces between separators, empty pieces included.
RECURSIVE SplitAcc(_, _)
SplitAcc(s, piece) ==
    IF s = <<>> THEN <<piece>>
    ELSE IF Head(s) \in {" ", ","}
         THEN <<piece>> \o SplitAcc(Tail(s), <<>>)
         ELSE SplitAcc(Tail(s), Append(piece, Head(s)))

Split(s) == SplitAcc(s, <<>>)

\* Boolean(piece): a string is truthy unless empty.
Truthy(piece) == piece # <<>>

parseMoves(s) ==
    SelectSeq(Split(Trim(CollapseSpaces(ReplaceMoveNumbers(s)))), Truthy)

-----------------------------------------------------------------------------
(* Inputs *)

TextEmpty == <<>>
TextSan == <<"Q","g","7","#">>
TextSloppy == <<"Q","g","7">>
TextUci == <<"f","7","g","7">>
TextIllegal == <<"a","1","a","8">>
TextLadder == <<"1","."," ","Q","f","6","+"," ","K","g","8"," ","2","."," ","Q","g","7","#">>
TextNumbered == <<"1",".","Q","f","6","+"," ","1",".",".",".","K","g","8">>
TextCheck == <<"Q","f","6","+">>
TextCommas == <<"Q","f","6","+",",","K","g","8",","," ","Q","f","8">>
TextBackRank == <<"Q","f","8","#">>
TextLateIllegal == <<"Q","f","6","+"," ","K","g","8","\n","a","1","a","8">>
TextKnight == <<"e","8","=","N">>
TextUciKnight == <<"e","7","e","8","n">>
TextQueen == <<"e","8","=","Q">>

\* What the user may have typed into the solution textarea.
LoadTexts == {TextEmpty,
              TextSan,
              TextSloppy,
              TextUci,
              TextIllegal,
              TextLadder,
              TextNumbered,
              TextCheck,
              TextCommas,
              TextBackRank,
              TextLateIllegal,
              TextKnight,
              TextUciKnight,
              TextQueen}

\* The drags the user may make: every from/to pair that is a legal move in
\* some position, and two pairs that are legal in none.
DropPairs ==
    { <<f7, g7>>, <<f7, f6>>, <<f7, f8>>, <<f7, e7>>, <<f7, e8>>, <<f7, g8>>,
      <<h8, g8>>,
      <<f6, g7>>, <<f6, f8>>, <<f6, f7>>, <<f6, e7>>, <<f6, h8>>,
      <<g8, f8>>,
      <<e7, e8>>,
      <<g7, f7>>, <<e8, e7>> }

\* What the user may have typed into the FEN field (never empty: the button
\* tests the string first).
LoadFens == {FenDemo, FenLadder, FenPawn, FenBroken}

-----------------------------------------------------------------------------
(* The component's state *)

DEFAULT_PUZZLE ==
    [fen |-> FenDemo,
     solution |-> << <<"Q","g","7","#">> >>,
     coachNotes |-> << <<"Q","g","7","#">> >>]

\* useMemo(() => toSanSequence(puzzle.fen, puzzle.solution), ...)
expectedSequence == toSanSequence(puzzle.fen, puzzle.solution).san

\* puzzle.coachNotes?.[i] || san, for the 0-based index i
CoachText(i, san) ==
    IF i + 1 <= Len(puzzle.coachNotes) /\ puzzle.coachNotes[i + 1] # <<>>
    THEN puzzle.coachNotes[i + 1]
    ELSE san

\* new Chess(fen): a game at that position with no move history.
NewChess(f) == [fen |-> f, history |-> <<>>]

\* ch.undo(): takes back the last move of the instance's own history, and
\* returns null when the history is empty.
ChessUndo(ch) ==
    IF ch.history = <<>>
    THEN [undone |-> FALSE, fen |-> ch.fen]
    ELSE [undone |-> TRUE, fen |-> ch.history[Len(ch.history)]]

Mounted ==
    /\ puzzle = DEFAULT_PUZZLE
    /\ fen = DEFAULT_PUZZLE.fen
    /\ ply = 0
    /\ wrong = FALSE
    /\ arrows = <<>>
    /\ solved = FALSE
    /\ coach = <<>>
    /\ timers = 0
    /\ crashed = FALSE
    /\ lastOp = "mount"
    /\ ret = "none"
    /\ run = 0

\* No call of toSanSequence on its own is under way.
NormIdle ==
    [initialFen |-> DEFAULT_PUZZLE.fen, line |-> <<>>, seq |-> <<>>,
     done |-> FALSE, out |-> [threw |-> FALSE, san |-> <<>>]]

Init == Mounted /\ norm = NormIdle

-----------------------------------------------------------------------------
(* The handlers *)

\* reset, had it left the board where it was.
resetKeepsFen ==
    /\ ply' = 0
    /\ wrong' = FALSE
    /\ arrows' = <<>>
    /\ solved' = FALSE
    /\ coach' = <<>>
    /\ UNCHANGED <<puzzle, fen, timers, crashed>>

reset ==
    /\ fen' = puzzle.fen
    /\ ply' = 0
    /\ wrong' = FALSE
    /\ arrows' = <<>>
    /\ solved' = FALSE
    /\ coach' = <<>>
    /\ UNCHANGED <<puzzle, timers, crashed>>

undo ==
    LET ch == NewChess(fen)
        undone == ChessUndo(ch)
    IN  IF undone.undone
        THEN /\ ply' = IF ply - 1 > 0 THEN ply - 1 ELSE 0
             /\ coach' = SubSeq(coach, 1, Len(coach) - 1)
             /\ fen' = undone.fen
             /\ wrong' = FALSE
             /\ solved' = FALSE
             /\ arrows' = <<>>
             /\ UNCHANGED <<puzzle, timers, crashed>>
        ELSE UNCHANGED <<session, timers, crashed>>

\* playExpectedMove, had it left out the setSolved(true) of its last line.
playExpectedMoveNoSolved ==
    IF ply >= Len(expectedSequence)
    THEN UNCHANGED <<session, timers, crashed>>
    ELSE LET found == MoveSan(fen, expectedSequence[ply + 1])
         IN  IF found = {}
             THEN UNCHANGED <<session, timers, crashed>>
             ELSE LET mv == CHOOSE m \in found : TRUE
                  IN  /\ fen' = mv.after
                      /\ ply' = ply + 1
                      /\ coach' = Append(coach,
                                    [ok |-> TRUE, text |-> CoachText(ply, mv.san)])
                      /\ UNCHANGED <<puzzle, wrong, arrows, solved, timers,
                                     crashed>>

playExpectedMove ==
    IF ply >= Len(expectedSequence)
    THEN UNCHANGED <<session, timers, crashed>>
    ELSE LET found == MoveSan(fen, expectedSequence[ply + 1])
         IN  IF found = {}
             THEN UNCHANGED <<session, timers, crashed>>
             ELSE LET mv == CHOOSE m \in found : TRUE
                  IN  /\ fen' = mv.after
                      /\ ply' = ply + 1
                      /\ coach' = Append(coach,
                                    [ok |-> TRUE, text |-> CoachText(ply, mv.san)])
                      /\ solved' = IF ply + 1 = Len(expectedSequence)
                                   THEN TRUE ELSE solved
                      /\ UNCHANGED <<puzzle, wrong, arrows, timers, crashed>>

showHint ==
    LET found == IF ply < Len(expectedSequence)
                 THEN MoveSan(fen, expectedSequence[ply + 1])
                 ELSE {}
    IN  IF found = {}
        THEN UNCHANGED <<session, timers, crashed>>
        ELSE LET mv == CHOOSE m \in found : TRUE
             IN  /\ arrows' = << <<mv.from, mv.to>> >>
                 /\ UNCHANGED <<puzzle, fen, ply, wrong, solved, coach,
                                timers, crashed>>

\* const correct = expectedSan && clean(expectedSan) === clean(playedSan)
Correct(playedSan) ==
    /\ ply < Len(expectedSequence)
    /\ expectedSequence[ply + 1] # <<>>
    /\ clean(expectedSequence[ply + 1]) = clean(playedSan)

\* onDropIllegal, had the illegal drop been treated as a wrong-line move.
onDropIllegalFlagged ==
    /\ timers < MaxTimers
    /\ wrong' = TRUE
    /\ timers' = timers + 1
    /\ ret' = FALSE
    /\ UNCHANGED <<puzzle, fen, ply, arrows, solved, coach, crashed>>

\* if (!move) return false; // illegal
onDropIllegal ==
    /\ ret' = FALSE
    /\ UNCHANGED <<session, timers, crashed>>

\* onDropWrong, had it also logged the rejected move.
onDropWrongLogged ==
    /\ timers < MaxTimers
    /\ wrong' = TRUE
    /\ timers' = timers + 1
    /\ coach' = Append(coach, [ok |-> FALSE, text |-> <<>>])
    /\ ret' = FALSE
    /\ UNCHANGED <<puzzle, fen, ply, arrows, solved, crashed>>

\* if (!correct) { setWrong(true); setTimeout(...); return false; }
onDropWrong ==
    /\ timers < MaxTimers
    /\ wrong' = TRUE
    /\ timers' = timers + 1
    /\ ret' = FALSE
    /\ UNCHANGED <<puzzle, fen, ply, arrows, solved, coach, crashed>>

\* onDropCorrect, had it compared ply (not ply + 1) with the line's length.
onDropCorrectLateSolved(move) ==
    /\ fen' = move.after
    /\ ply' = ply + 1
    /\ coach' = Append(coach, [ok |-> TRUE, text |-> CoachText(ply, move.san)])
    /\ arrows' = <<>>
    /\ solved' = IF ply = Len(expectedSequence) THEN TRUE ELSE solved
    /\ ret' = TRUE
    /\ UNCHANGED <<puzzle, wrong, timers, crashed>>

\* The accepted move: setFen, setPly, setCoach, setArrows, setSolved.
onDropCorrect(move) ==
    /\ fen' = move.after
    /\ ply' = ply + 1
    /\ coach' = Append(coach, [ok |-> TRUE, text |-> CoachText(ply, move.san)])
    /\ arrows' = <<>>
    /\ solved' = IF ply + 1 = Len(expectedSequence) THEN TRUE ELSE solved
    /\ ret' = TRUE
    /\ UNCHANGED <<puzzle, wrong, timers, crashed>>

onDrop(sourceSquare, targetSquare) ==
    LET found == MoveObj(fen, sourceSquare, targetSquare, "q")
    IN  IF found = {}
        THEN onDropIllegal
        ELSE LET move == CHOOSE m \in found : TRUE
             IN  IF ~Correct(move.san)
                 THEN onDropWrong
                 ELSE onDropCorrect(move)

\* wrongTimeout, had the callback not cleared the flag.
wrongTimeoutKeeps ==
    /\ timers > 0
    /\ timers' = timers - 1
    /\ UNCHANGED <<puzzle, fen, ply, wrong, arrows, solved, coach, crashed>>

\* setTimeout(() => setWrong(false), 450)
wrongTimeout ==
    /\ timers > 0
    /\ timers' = timers - 1
    /\ wrong' = FALSE
    /\ UNCHANGED <<puzzle, fen, ply, arrows, solved, coach, crashed>>

\* The next render evaluates expectedSequence again; toSanSequence throwing
\* there is an uncaught render error.
RenderThrows(p) == toSanSequence(p.fen, p.solution).threw

\* onLoad, had it committed without the new Chess(p.fen) check.
onLoadUnchecked(p) ==
    /\ puzzle' = [puzzle EXCEPT !.fen = p]
    /\ fen' = p
    /\ ply' = 0
    /\ solved' = FALSE
    /\ wrong' = FALSE
    /\ coach' = <<>>
    /\ crashed' = RenderThrows(puzzle')
    /\ UNCHANGED <<arrows, timers>>

onLoad(p) ==
    IF ValidFen(p)
    THEN /\ puzzle' = [puzzle EXCEPT !.fen = p]
         /\ fen' = p
         /\ ply' = 0
         /\ solved' = FALSE
         /\ wrong' = FALSE
         /\ coach' = <<>>
         /\ crashed' = RenderThrows(puzzle')
         /\ UNCHANGED <<arrows, timers>>
    ELSE UNCHANGED <<session, timers, crashed>>

onLoadSolution(seq) ==
    IF ~toSanSequence(puzzle.fen, seq).threw
    THEN /\ puzzle' = [puzzle EXCEPT !.solution = seq]
         /\ ply' = 0
         /\ solved' = FALSE
         /\ wrong' = FALSE
         /\ coach' = <<>>
         /\ arrows' = <<>>
         /\ crashed' = RenderThrows(puzzle')
         /\ UNCHANGED <<fen, timers>>
    ELSE UNCHANGED <<session, timers, crashed>>

\* onLoad({ fen: DEFAULT_PUZZLE.fen }); onLoadSolution(DEFAULT_PUZZLE.solution)
\* in one event: both callbacks are closures of the same render, so the second
\* validates against the puzzle.fen of before the first; the queued setPuzzle
\* updaters then apply in order.
loadDemo ==
    LET solutionOk == ~toSanSequence(puzzle.fen, DEFAULT_PUZZLE.solution).threw
    IN  /\ puzzle' = IF solutionOk
                     THEN [puzzle EXCEPT !.fen = DEFAULT_PUZZLE.fen,
                                         !.solution = DEFAULT_PUZZLE.solution]
                     ELSE [puzzle EXCEPT !.fen = DEFAULT_PUZZLE.fen]
        /\ fen' = DEFAULT_PUZZLE.fen
        /\ ply' = 0
        /\ solved' = FALSE
        /\ wrong' = FALSE
        /\ coach' = <<>>
        /\ arrows' = IF solutionOk THEN <<>> ELSE arrows
        /\ crashed' = RenderThrows(puzzle')
        /\ UNCHANGED timers

-----------------------------------------------------------------------------
(* The specification *)

\* A fresh session on the active puzzle.
Fresh ==
    /\ ~crashed
    /\ fen = puzzle.fen
    /\ ply = 0
    /\ ~solved
    /\ coach = <<>>

\* Bookkeeping of a step by handler op.
Called(op, accepted) ==
    /\ lastOp' = op
    /\ run' = IF Fresh' THEN 0
              ELSE IF accepted /\ run >= 0 THEN run + 1
              ELSE -1
    /\ UNCHANGED norm

ResetClicked ==
    ~crashed /\ reset /\ Called("reset", FALSE) /\ ret' = "none"

UndoClicked ==
    ~crashed /\ undo /\ Called("undo", FALSE) /\ ret' = "none"

PlayClicked ==
    ~crashed /\ playExpectedMove /\ Called("playExpectedMove", FALSE)
        /\ ret' = "none"

HintClicked ==
    ~crashed /\ showHint /\ Called("showHint", FALSE) /\ ret' = "none"

PieceDropped ==
    /\ ~crashed
    /\ \E d \in DropPairs :
         onDrop(d[1], d[2]) /\ Called("onDrop", ret' = TRUE)

TimerFired ==
    ~crashed /\ wrongTimeout /\ Called("wrongTimeout", FALSE) /\ ret' = "none"

\* Load FEN button: fen && onLoad({ fen })
FenLoaded ==
    /\ ~crashed
    /\ \E p \in LoadFens :
         onLoad(p) /\ Called("onLoad", FALSE) /\ ret' = "none"

\* Load Solution button: onLoadSolution(parseMoves(moves))
SolutionLoaded ==
    /\ ~crashed
    /\ \E s \in LoadTexts :
         onLoadSolution(parseMoves(s)) /\ Called("onLoadSolution", FALSE)
             /\ ret' = "none"

DemoLoaded ==
    ~crashed /\ loadDemo /\ Called("loadDemo", FALSE) /\ ret' = "none"

Next ==
    \/ ResetClicked
    \/ UndoClicked
    \/ PlayClicked
    \/ HintClicked
    \/ PieceDropped
    \/ TimerFired
    \/ FenLoaded
    \/ SolutionLoaded
    \/ DemoLoaded

Spec == Init /\ [][Next]_vars

-----------------------------------------------------------------------------
(* toSanSequence called on its own, as SelfTests calls it *)

\* The coordinate-notation token of a move: from + to + promotion letter.
UciOf(m) ==
    m.from \o m.to \o (IF m.promotion = "" THEN <<>> ELSE <<m.promotion>>)

\* The move lists of at most k moves that are legal, move after move, from pos.
RECURSIVE Lines(_, _)
Lines(pos, k) ==
    IF k = 0 THEN {<<>>}
    ELSE {<<>>} \cup
         UNION {{<<m>> \o l : l \in Lines(m.after, k - 1)} : m \in LegalMoves(pos)}

\* The token lists that write a move list, each move in SAN or in coordinates.
RECURSIVE Renderings(_)
Renderings(line) ==
    IF line = <<>> THEN {<<>>}
    ELSE {<<t>> \o r : t \in {Head(line).san, UciOf(Head(line))},
                       r \in Renderings(Tail(line))}

NormInit ==
    /\ Mounted
    /\ \E f \in Positions :
         \E l \in Lines(f, MaxLine) :
           \E s \in Renderings(l) :
             norm = [initialFen |-> f, line |-> l, seq |-> s, done |-> FALSE,
                     out |-> [threw |-> FALSE, san |-> <<>>]]

\* const out = toSanSequence(fen, seq)
Normalize ==
    /\ ~norm.done
    /\ norm' = [norm EXCEPT !.done = TRUE,
                            !.out = toSanSequence(norm.initialFen, norm.seq)]
    /\ UNCHANGED <<session, timers, crashed, lastOp, ret, run>>

NormNext == Normalize

NormSpec == NormInit /\ [][NormNext]_vars

\* The browser runs a scheduled setTimeout callback once its delay is over:
\* a pending timer is not postponed forever.
FairSpec == Spec /\ WF_vars(TimerFired)

-----------------------------------------------------------------------------
(* Properties *)

\* A text with every +, #, ! and ? removed.
Stripped(s) == SelectSeq(s, LAMBDA c : c \notin {"+", "#", "!", "?"})

\* The from/to pair is a legal move of the position on the board.
IsLegal(from, to) ==
    \E m \in LegalMoves(fen) : m.from = from /\ m.to = to

\* The move an onDrop of the pair plays (promotion "q") has the expected
\* move's SAN, decorations aside.
PlaysExpected(from, to) ==
    /\ ply < Len(expectedSequence)
    /\ \E m \in MoveObj(fen, from, to, "q") :
         Stripped(m.san) = Stripped(expectedSequence[ply + 1])

\* C1, the state of a run: after k expected moves dropped in a row on a fresh
\* session of a puzzle with n >= 1 moves, ply = k, the log has k entries, and
\* solved holds exactly when k = n.
C1_RunState ==
    (run >= 0 /\ Len(expectedSequence) >= 1) =>
        /\ ply = run
        /\ Len(coach) = run
        /\ run <= Len(expectedSequence)
        /\ (solved <=> run = Len(expectedSequence))

\* C1, the calls of a run: each drop of the expected move is accepted, raises
\* ply by one and appends one log entry.
C1_RunStep ==
    (lastOp' = "onDrop" /\ run >= 0) =>
        \A d \in DropPairs :
            (PlaysExpected(d[1], d[2]) /\ onDrop(d[1], d[2])) =>
                /\ ret' = TRUE
                /\ ply' = ply + 1
                /\ Len(coach') = Len(coach) + 1
                /\ run' = run + 1

\* C1: starting from a fresh session on a puzzle with n >= 1 expected moves,
\* n onDrop calls that each play the expected move are accepted at every
\* call, raise ply by one per call from 0 to n, append one log entry per call,
\* and leave solved false after the first n-1 calls and true after the n-th.
C1_ExpectedLineSolves == []C1_RunState /\ [][C1_RunStep]_vars

\* A three-move line was played out by three accepted drops.
C1_Witness ==
    /\ run = 3
    /\ Len(expectedSequence) = 3
    /\ solved
    /\ lastOp = "onDrop" /\ ret = TRUE

\* C2: an onDrop of a legal move whose SAN differs from expectedSequence[ply]
\* once +, #, ! and ? are removed from both leaves fen, ply, solved and the
\* log unchanged, sets wrong and returns false; a legal move is accepted
\* exactly when the two stripped strings are equal.
C2_WrongLineRejected ==
    [][ lastOp' = "onDrop" =>
          \A d \in DropPairs :
              (IsLegal(d[1], d[2]) /\ onDrop(d[1], d[2])) =>
                  /\ (ret' = TRUE) <=> PlaysExpected(d[1], d[2])
                  /\ ~PlaysExpected(d[1], d[2]) =>
                        /\ UNCHANGED <<fen, ply, solved, coach>>
                        /\ wrong' = TRUE
                        /\ ret' = FALSE ]_vars

\* A wrong-line drop was rejected (wrong is up, its timer pending) and then a
\* move was accepted whose SAN differs from the expected one in its check
\* mark only: Qf8+ on the board for the expected Qf8#.
C2_Witness ==
    /\ lastOp = "onDrop" /\ ret = TRUE
    /\ wrong /\ timers > 0
    /\ ply = 1
    /\ expectedSequence[1] = <<"Q","f","8","#">>
    /\ fen = FenLadderQf8

\* C3: an onDrop whose from/to pair is no legal move of the current position
\* returns false and changes nothing: fen, ply, solved, wrong, the log, the
\* arrows and the active puzzle stay as they were.
C3_IllegalRejected ==
    [][ lastOp' = "onDrop" =>
          \A d \in DropPairs :
              (~IsLegal(d[1], d[2]) /\ onDrop(d[1], d[2])) =>
                  /\ ret' = FALSE
                  /\ UNCHANGED <<fen, ply, solved, wrong, coach, arrows,
                                 puzzle>> ]_vars

\* The last call was a rejected drop that did not raise wrong (so an illegal
\* one), in the middle of a line, with a hint arrow on the board.
C3_Witness ==
    /\ lastOp = "onDrop" /\ ret = FALSE
    /\ ~wrong
    /\ ply > 0 /\ ~solved
    /\ arrows # <<>>

\* The position k moves into the line sans, from pos.
RECURSIVE Replay(_, _, _)
Replay(pos, sans, k) ==
    IF k = 0 THEN pos
    ELSE LET found == MoveSan(pos, Head(sans))
         IN  IF found = {} THEN "no position"
             ELSE Replay((CHOOSE m \in found : TRUE).after, Tail(sans), k - 1)

\* C4: undo() after k > 0 correct moves on a fresh session gives the fen,
\* ply (= k-1) and log of a session in which only the first k-1 were played,
\* and clears solved and wrong.
C4_UndoTakesBack ==
    [][ (lastOp' = "undo" /\ run > 0) =>
          /\ ply' = run - 1
          /\ coach' = SubSeq(coach, 1, run - 1)
          /\ fen' = Replay(puzzle.fen, expectedSequence, run - 1)
          /\ ~solved'
          /\ ~wrong' ]_vars

\* C5: in every reachable state fen is the position reached by applying the
\* first ply moves of expectedSequence to the active puzzle.fen.
C5_FenFollowsLine ==
    ~crashed =>
        /\ ply <= Len(expectedSequence)
        /\ fen = Replay(puzzle.fen, expectedSequence, ply)

\* C6: in every reachable state solved is true if and only if ply equals
\* expectedSequence.length.
C6_SolvedIffAtEnd ==
    ~crashed => (solved <=> ply = Len(expectedSequence))

\* C7: a load that fails validation leaves the session untouched: after
\* onLoad with a FEN new Chess rejects, and after onLoadSolution with a list
\* toSanSequence throws on, puzzle, fen, ply, solved, wrong, the log and the
\* arrows are what they were.
C7_FailedLoadKeepsSession ==
    [][ /\ lastOp' = "onLoad" =>
             \A p \in LoadFens :
                 (~ValidFen(p) /\ onLoad(p)) => UNCHANGED session
        /\ lastOp' = "onLoadSolution" =>
             \A s \in LoadTexts :
                 (toSanSequence(puzzle.fen, parseMoves(s)).threw
                     /\ onLoadSolution(parseMoves(s))) => UNCHANGED session
      ]_vars

\* The last call was a load of a solution that left a session in progress
\* (a load that succeeds sets ply to 0).
C7_Witness ==
    /\ lastOp = "onLoadSolution"
    /\ ply > 0
    /\ coach # <<>>

\* C8: in every reachable state the active puzzle.solution normalizes against
\* the active puzzle.fen (toSanSequence does not throw).
C8_DefinitionNormalizes == ~RenderThrows(puzzle)

\* C9: while solved is true, every onDrop call returns false and leaves fen,
\* ply, solved, wrong and the log unchanged.
C9_SolvedIsTerminal ==
    [][ (solved /\ lastOp' = "onDrop") =>
          /\ ret' = FALSE
          /\ UNCHANGED <<fen, ply, solved, wrong, coach>> ]_vars

\* C10: right after an accepted onDrop wrong is false, also when a wrong-line
\* drop raised it and its timer has not fired yet.
C10_CorrectMoveClearsWrong ==
    (lastOp = "onDrop" /\ ret = TRUE) => ~wrong

\* C11: reset() leaves fen at the active puzzle's start position puzzle.fen,
\* ply at 0, and the log, solved and wrong cleared, whatever was played or
\* loaded before.
C11_ResetRestoresStart ==
    lastOp = "reset" =>
        /\ fen = puzzle.fen
        /\ ply = 0
        /\ coach = <<>>
        /\ ~solved
        /\ ~wrong

\* reset ran on a puzzle loaded by the user (start position and line are not
\* the demo's) while the timer of a wrong move was still pending.
C11_Witness ==
    /\ lastOp = "reset"
    /\ puzzle.fen = FenLadder
    /\ puzzle.solution # DEFAULT_PUZZLE.solution
    /\ timers > 0

\* C12: playExpectedMove() changes nothing when solved; in an unsolved state
\* where it plays expectedSequence[ply], fen, ply, solved and the log become
\* what an accepted onDrop of that move makes them: the move's position,
\* ply + 1, one more log entry (the coach note of that ply or the SAN), and
\* solved set iff ply + 1 is the line's length.
C12_CoachMoveAsDrop ==
    [][ lastOp' = "playExpectedMove" =>
          IF solved
          THEN UNCHANGED session
          ELSE /\ (ply < Len(expectedSequence)
                     /\ MoveSan(fen, expectedSequence[ply + 1]) # {}) =>
                      /\ ply' = ply + 1
                      /\ Len(coach') = Len(coach) + 1
                      /\ SubSeq(coach', 1, Len(coach)) = coach
                      /\ solved' = (ply + 1 = Len(expectedSequence))
               /\ \A d \in DropPairs :
                     PlaysExpected(d[1], d[2]) =>
                         \E m \in MoveObj(fen, d[1], d[2], "q") :
                             /\ fen' = m.after
                             /\ ply' = ply + 1
                             /\ coach' = Append(coach,
                                   [ok |-> TRUE, text |-> CoachText(ply, m.san)])
                             /\ solved' = (ply + 1 = Len(expectedSequence))
      ]_vars

\* The coach played the last move of a three-move line.
C12_Witness ==
    /\ lastOp = "playExpectedMove"
    /\ ply = 3
    /\ Len(expectedSequence) = 3
    /\ solved

\* C13: after a load, no log entry carries a coach note of the puzzle
\* loaded before: the text of every entry is the annotation of the active
\* puzzle for that ply, which is the move of its own line at that ply, or the
\* SAN of the move played.
C13_LogTextOfActivePuzzle ==
    ~crashed =>
        \A i \in 1..Len(coach) :
            i <= Len(expectedSequence) =>
                Stripped(coach[i].text) = Stripped(expectedSequence[i])

\* C14: in every reachable state ply is the number of entries of the coach
\* log, and every entry has ok = true.
C14_PlyCountsLog ==
    /\ ply = Len(coach)
    /\ \A i \in 1..Len(coach) : coach[i].ok = TRUE

\* Two moves are logged and a wrong move has just been rejected.
C14_Witness ==
    /\ Len(coach) = 2
    /\ wrong
    /\ lastOp = "onDrop"
    /\ ret = FALSE

\* C15: whenever wrong is true it becomes false again, whatever is done in
\* between, given that pending timers run; and a timer callback changes
\* nothing of the session except wrong.
C15_WrongIsTransient ==
    /\ wrong ~> ~wrong
    /\ [][ lastOp' = "wrongTimeout" =>
             UNCHANGED <<puzzle, fen, ply, arrows, solved, coach>> ]_vars

\* A timer has cleared wrong in mid-line while a second one is pending.
C15_Witness ==
    /\ lastOp = "wrongTimeout"
    /\ ~wrong
    /\ ply > 0
    /\ timers = 1

\* The SANs of a move list.
SansOf(line) == [i \in 1..Len(line) |-> line[i].san]

\* C16: for any position and any line of legal moves from it, toSanSequence
\* returns the same canonical SANs whether a move is written in coordinate
\* notation (from + to + promotion letter) or in SAN, and it reads each token
\* in the position the earlier tokens lead to: the result is the SAN of every
\* move of the line, also after stripping + # ! ?.
C16_NotationRoundTrip ==
    norm.done =>
        /\ ~norm.out.threw
        /\ norm.out.san = SansOf(norm.line)
        /\ norm.out = toSanSequence(norm.initialFen, SansOf(norm.line))
        /\ norm.out = toSanSequence(norm.initialFen,
                                    [i \in 1..Len(norm.line) |-> UciOf(norm.line[i])])
        /\ \A i \in 1..Len(norm.line) :
               Stripped(norm.out.san[i]) = Stripped(norm.line[i].san)

\* "Kg8 f6g7" was normalized from the position after Qf6+: the second token,
\* in coordinates, is a move of the position after Kg8 only.
C16_Witness ==
    /\ norm.done
    /\ norm.initialFen = FenDemoQf6
    /\ norm.seq = << <<"K", "g", "8">>, <<"f", "6", "g", "7">> >>
    /\ norm.out.san = << <<"K", "g", "8">>, <<"Q", "g", "7", "#">> >>

\* C17: showHint() leaves puzzle, fen, ply, solved, wrong and coach
\* unchanged; with ply below the line's length it sets the arrow to the
\* from/to squares of expectedSequence[ply] in the current position, and at
\* the end of the line it changes nothing.
C17_HintReadOnly ==
    [][ lastOp' = "showHint" =>
          /\ UNCHANGED <<puzzle, fen, ply, solved, wrong, coach>>
          /\ IF ply < Len(expectedSequence)
             THEN \E m \in MoveSan(fen, expectedSequence[ply + 1]) :
                      arrows' = << <<m.from, m.to>> >>
             ELSE arrows' = arrows
      ]_vars

\* C18: after loadDemo the active puzzle is the whole demo definition, its
\* FEN and its solution, on a fresh session; never the demo FEN next to the
\* solution that was active before.
C18_DemoLoadedWhole ==
    lastOp = "loadDemo" =>
        /\ puzzle.fen = DEFAULT_PUZZLE.fen
        /\ puzzle.solution = DEFAULT_PUZZLE.solution
        /\ Fresh

\* C19: while a session is played by drops alone from its fresh state, at
\* every ply before the end some onDrop call is accepted as the expected
\* move, under-promotions included, so that drops alone reach solved.
C19_DropsCanSolve ==
    (run >= 0 /\ ply < Len(expectedSequence)) =>
        \E d \in DropPairs : PlaysExpected(d[1], d[2])

\* C20: a displayed arrow is never stale: whenever arrows is non-empty, ply
\* is below the line's length and the arrow is the from/to pair of
\* expectedSequence[ply] in the current fen.
C20_ArrowNeverStale ==
    (~crashed /\ arrows # <<>>) =>
        /\ ply < Len(expectedSequence)
        /\ \E m \in MoveSan(fen, expectedSequence[ply + 1]) :
               arrows = << <<m.from, m.to>> >>

====
